---- MODULE Spec2Model ----
(***************************************************************************)
(* Render-job lifecycle of the Blender serverless worker (handler.py):     *)
(* handler, download_template, check_gpu and render_blender, with the      *)
(* filesystem, the renderer subprocess and the clock as the environment;   *)
(* and the submit-and-poll loop of the client drivers (render.py,          *)
(* test_endpoint.py), with the platform's responses as the environment.    *)
(***************************************************************************)
EXTENDS Integers, Sequences, FiniteSets, TLC

(* ------------------------------------------------------------ bounds *)

\* number of jobs one worker process handles in a behaviour
MaxJobs == 2
\* longest byte sequence the renderer writes to the output path
MaxLen == 3
\* number of clock steps the one-hour ceiling is divided into
MaxTicks == 2

(* ---------------------------------------------------- Python values *)

None == [t |-> "none"]
\* marks a key that a dict does not hold
Missing == [t |-> "missing"]
PyInt(n) == [t |-> "int", v |-> n]
PyStr(s) == [t |-> "str", v |-> s]
PyList(s) == [t |-> "list", v |-> s]
PyDict(d) == [t |-> "dict", v |-> d]

\* Python truth value of x ("if x:", "not x", "x or y")
Truthy(x) ==
    CASE x.t = "none" -> FALSE
      [] x.t = "missing" -> FALSE
      [] x.t = "int" -> x.v # 0
      [] x.t = "str" -> x.v # ""
      [] x.t = "list" -> Len(x.v) > 0
      [] x.t = "dict" -> \E k \in DOMAIN x.v : x.v[k] # Missing
      [] OTHER -> TRUE

\* d.get(k): the value under k, None when the key is absent
Get(d, k) == IF d[k] = Missing THEN None ELSE d[k]
\* k in d
Has(d, k) == d[k] # Missing

(* -------------------------------------------------------- constants *)

TEMPLATES == [ai_cpu_activation |-> [kind |-> "registry", n |-> 0]]
TemplateKeys == DOMAIN TEMPLATES
\* str(list(TEMPLATES.keys()))
TemplateKeysStr == "['ai_cpu_activation']"

ConfigKeys == {"duration", "resolution", "samples", "fps"}
\* fps has a hidden default
DEFAULT_CONFIG_mut == [k \in ConfigKeys |-> IF k = "fps" THEN [t |-> "int", v |-> 30] ELSE [t |-> "none"]]

\* DEFAULT_CONFIG: every field is None
DEFAULT_CONFIG == [k \in ConfigKeys |-> None]

\* subprocess.run(cmd, ..., timeout=3600)
RenderTimeout == 3600
TickSeconds == RenderTimeout \div MaxTicks

TimedOutMsg == "Render timed out after 1 hour"
NoOutputMsg == "Render failed - no output file"
MissingParamMsg(f) == "Missing required parameter: " \o f
\* the message leaves out the list of valid names
UnknownTemplateMsg_mut(name) == "Unknown template: " \o name
UnknownTemplateMsg(name) ==
    "Unknown template: " \o name \o ". Available: " \o TemplateKeysStr

(* ----------------------------------------------------------- base64 *)

B64Alphabet ==
    << "A","B","C","D","E","F","G","H","I","J","K","L","M","N","O","P",
       "Q","R","S","T","U","V","W","X","Y","Z","a","b","c","d","e","f",
       "g","h","i","j","k","l","m","n","o","p","q","r","s","t","u","v",
       "w","x","y","z","0","1","2","3","4","5","6","7","8","9","+","/" >>
B64Char(i) == B64Alphabet[i + 1]
B64Index(c) == (CHOOSE i \in 1..64 : B64Alphabet[i] = c) - 1

RECURSIVE b64encode_mut(_)
\* a slip in the padding branch: the last input byte of a two-byte tail is dropped
b64encode_mut(b) ==
    IF Len(b) = 0 THEN <<>>
    ELSE IF Len(b) = 1 THEN
        << B64Char(b[1] \div 4), B64Char((b[1] % 4) * 16), "=", "=" >>
    ELSE IF Len(b) = 2 THEN
        << B64Char(b[1] \div 4), B64Char((b[1] % 4) * 16), "=", "=" >>
    ELSE
        << B64Char(b[1] \div 4),
           B64Char((b[1] % 4) * 16 + b[2] \div 16),
           B64Char((b[2] % 16) * 4 + b[3] \div 64),
           B64Char(b[3] % 64) >> \o b64encode_mut(SubSeq(b, 4, Len(b)))

RECURSIVE b64encode(_)
\* base64.b64encode(video_bytes).decode("utf-8"): a sequence of characters
b64encode(b) ==
    IF Len(b) = 0 THEN <<>>
    ELSE IF Len(b) = 1 THEN
        << B64Char(b[1] \div 4), B64Char((b[1] % 4) * 16), "=", "=" >>
    ELSE IF Len(b) = 2 THEN
        << B64Char(b[1] \div 4),
           B64Char((b[1] % 4) * 16 + b[2] \div 16),
           B64Char((b[2] % 16) * 4), "=" >>
    ELSE
        << B64Char(b[1] \div 4),
           B64Char((b[1] % 4) * 16 + b[2] \div 16),
           B64Char((b[2] % 16) * 4 + b[3] \div 64),
           B64Char(b[3] % 64) >> \o b64encode(SubSeq(b, 4, Len(b)))

RECURSIVE b64decode(_)
\* base64.b64decode(s): four characters give up to three bytes
b64decode(s) ==
    IF Len(s) < 4 THEN <<>>
    ELSE LET i1 == B64Index(s[1])
             i2 == B64Index(s[2])
             rest == b64decode(SubSeq(s, 5, Len(s)))
         IN  IF s[3] = "=" THEN << i1 * 4 + i2 \div 16 >>
             ELSE LET i3 == B64Index(s[3]) IN
                  IF s[4] = "=" THEN
                      << i1 * 4 + i2 \div 16, (i2 % 16) * 16 + i3 \div 4 >>
                  ELSE
                      << i1 * 4 + i2 \div 16, (i2 % 16) * 16 + i3 \div 4,
                         (i3 % 4) * 64 + B64Index(s[4]) >> \o rest

(* ----------------------------------------------------- input domains *)

RECURSIVE SeqsUpTo(_, _)
SeqsUpTo(S, n) ==
    IF n = 0 THEN {<<>>}
    ELSE LET shorter == SeqsUpTo(S, n - 1)
         IN  shorter \cup {Append(s, x) : s \in shorter, x \in S}

ByteVals == {0, 255}
\* the byte sequences a render may leave at the output path
ByteSeqs == SeqsUpTo(ByteVals, MaxLen)

TemplateUrl == "https://example/scene.blend"

NestedKeys == ConfigKeys
NoNested == [k \in NestedKeys |-> Missing]
\* values of the optional "config" entry of a job input
NestedConfigs ==
    { Missing,
      PyDict(NoNested),
      PyDict([NoNested EXCEPT !["samples"] = PyInt(64),
                              !["duration"] = PyInt(4),
                              !["resolution"] = PyList(<<1280, 720>>)]) }

InputKeys == {"template", "template_url", "config"} \cup ConfigKeys

\* job["input"]: every key either absent or one of a few values
JobInputs ==
    { [k \in InputKeys |->
         CASE k = "template" -> tn
           [] k = "template_url" -> tu
           [] k = "duration" -> du
           [] k = "resolution" -> re
           [] k = "samples" -> sa
           [] k = "fps" -> fp
           [] OTHER -> nc] :
      tn \in {Missing, PyStr(""), PyStr("ai_cpu_activation"), PyStr("neural_network")},
      tu \in {Missing, PyStr(""), PyStr(TemplateUrl)},
      du \in {Missing, PyInt(0), PyInt(8)},
      re \in {Missing, PyList(<<>>), PyList(<<1920, 1080>>), PyList(<<1920>>), PyInt(1080)},
      sa \in {Missing, PyInt(0), PyInt(128)},
      fp \in {Missing, PyInt(0), PyInt(24)},
      nc \in NestedConfigs }

EmptyInput == [k \in InputKeys |-> Missing]

\* a few inputs to go with a missing id or a nested config that is not a dict
SampleInputs ==
    { EmptyInput,
      [EmptyInput EXCEPT !["template"] = PyStr("neural_network")],
      [EmptyInput EXCEPT !["template_url"] = PyStr(TemplateUrl)],
      [EmptyInput EXCEPT !["template"] = PyStr("ai_cpu_activation"),
                         !["resolution"] = PyList(<<1920, 1080>>),
                         !["samples"] = PyInt(128),
                         !["fps"] = PyInt(24)] }
BadNestedInputs == { [d EXCEPT !["config"] = PyInt(5)] : d \in SampleInputs }

\* a job as the platform hands it to handler: "id" may be absent, "input" may be
\* absent or not a dict, the nested config may be something other than a dict
Jobs ==
    [hasId : {TRUE},
     input : {PyDict(d) : d \in JobInputs \cup BadNestedInputs} \cup {Missing, PyInt(7)}]
    \cup [hasId : {FALSE}, input : {PyDict(d) : d \in SampleInputs} \cup {Missing}]

(* ------------------------------------------------------------- state *)

VARIABLES
    pc,                  \* where handler stands: idle, resolved, probed, created, running, done
    job,                 \* the job being handled
    config,              \* handler's config dict
    template_name,       \* handler's local template_name
    template_url,        \* handler's local template_url
    template_path,       \* handler's local template_path (a file name)
    downloaded_template, \* handler's local downloaded_template (None or a file name)
    has_gpu,             \* handler's local has_gpu
    output_path,         \* handler's local output_path (None or a file name)
    files,               \* names of the files that exist
    outData,             \* bytes held by the file at output_path
    proc,                \* renderer subprocess: none, running, exited, killed, failed
    hangs,               \* the spawned subprocess never terminates on its own
    child,               \* how the subprocess ended, once it has exited (None before)
    elapsed,             \* seconds since the subprocess was spawned
    render_result,       \* what render_blender returned (None before)
    result,              \* what handler produced: nothing yet, a payload, or an exception
    history,             \* how each finished invocation ended: "payload" or "raised"
    spawns,              \* renderer subprocesses spawned by this invocation
    downloads,           \* template downloads attempted by this invocation
    probes,              \* GPU probe subprocesses run by this invocation
    download_outcome,    \* how this invocation's download went ("none" without one)
    args                 \* what parse_args returned in the spawned renderer (None before)

\* the client drivers (render.py, test_endpoint.py)
VARIABLES
    driver,              \* which client script runs: "render" or "test_endpoint"
    env,                 \* which of the two environment variables are set
    cpc,                 \* where the client stands: off, load, ready, polling, ended
    now,                 \* seconds since start_time was taken
    poll_elapsed,        \* the client's local elapsed, as computed at the top of the loop
    response_code,       \* status code of the submission response (0 before it)
    job_id,              \* the client's local job_id (None before the submission)
    srv,                 \* what the platform will report for the submitted job, and when
    status,              \* the status the last poll returned
    posts,               \* submission requests sent
    gets,                \* status requests sent
    sent,                \* the distinct requests sent, as "METHOD path"
    writes,              \* times the client opened its local output file for writing
    local_file,          \* bytes of the local output file (None while it does not exist)
    client_end,          \* how the client run ended ("none" before)
    client_config,       \* CONFIG of render.py / the arguments of test_render
    payload,             \* payload["input"] as built for the submission (None before)
    printed              \* the labels of the lines the poll loop's last turn printed

wvars == << pc, job, config, template_name, template_url, template_path,
            downloaded_template, has_gpu, output_path, files, outData, proc,
            hangs, child, elapsed, render_result, result, history, spawns,
            downloads, probes, download_outcome, args >>

cvars == << driver, env, cpc, now, poll_elapsed, response_code, job_id, srv, status,
            posts, gets, sent, writes, local_file, client_end, client_config,
            payload, printed >>

vars == << wvars, cvars >>

RegistryFile == TEMPLATES["ai_cpu_activation"]
BlendFile(n) == [kind |-> "blend", n |-> n]
Mp4File(n) == [kind |-> "mp4", n |-> n]

NoResult == [kind |-> "none"]
Payload(p) == [kind |-> "payload", payload |-> p]
Raised(e) == [kind |-> "raised", exc |-> e]
\* the error payload also carries an (empty) video
ErrorPayload_mut(msg) == Payload([error |-> msg, video_base64 |-> <<>>])

\* return {"error": ...}
ErrorPayload(msg) == Payload([error |-> msg])

(* --------------------------------------------------------------- Init *)

\* no client script is running
ClientOff ==
    /\ driver = "render"
    /\ env = [api_key |-> FALSE, endpoint_id |-> FALSE]
    /\ cpc = "off"
    /\ now = 0
    /\ poll_elapsed = 0
    /\ response_code = 0
    /\ job_id = None
    /\ srv = None
    /\ status = None
    /\ posts = 0
    /\ gets = 0
    /\ sent = {}
    /\ writes = 0
    /\ local_file = None
    /\ client_end = "none"
    /\ client_config = None
    /\ payload = None
    /\ printed = {}

\* a fresh worker: no job yet; the image either holds the baked-in scene file or not
WorkerInit ==
    /\ pc = "idle"
    /\ job = None
    /\ config = DEFAULT_CONFIG
    /\ template_name = None
    /\ template_url = None
    /\ template_path = None
    /\ downloaded_template = None
    /\ has_gpu = FALSE
    /\ output_path = None
    /\ files \in {{}, {RegistryFile}}
    /\ outData = <<>>
    /\ proc = "none"
    /\ hangs = FALSE
    /\ child = None
    /\ elapsed = 0
    /\ render_result = None
    /\ result = NoResult
    /\ history = <<>>
    /\ spawns = 0
    /\ downloads = 0
    /\ probes = 0
    /\ download_outcome = "none"
    /\ args = None

Init == WorkerInit /\ ClientOff

\* index of the invocation in progress (names its temporary files)
JobNo == Len(history) + 1

(* -------------------------------------------------- download_template *)

DownloadOutcomes == {"ok", "mkstemp_error", "http_error", "url_error", "io_error"}

\* the except branch for HTTPError raises without removing the file
download_template_mut(path, outcome, fs) ==
    CASE outcome = "mkstemp_error" ->
            [ok |-> FALSE, files |-> fs, error |-> "[Errno 28] No space left on device"]
      [] outcome = "ok" ->
            [ok |-> TRUE, files |-> fs \cup {path}, path |-> path]
      [] outcome = "http_error" ->
            [ok |-> FALSE, files |-> fs \cup {path},
             error |-> "HTTP error downloading template: " \o "404" \o " " \o "Not Found"]
      [] outcome = "url_error" ->
            [ok |-> FALSE, files |-> (fs \cup {path}) \ {path},
             error |-> "URL error downloading template: " \o "Name or service not known"]
      [] OTHER ->
            [ok |-> FALSE, files |-> (fs \cup {path}) \ {path},
             error |-> "Failed to download template: " \o "timed out"]

\* download_template(url): mkstemp creates the file at path, then the fetch and the
\* write either succeed or raise; every except branch removes the file before raising
download_template(path, outcome, fs) ==
    CASE outcome = "mkstemp_error" ->
            [ok |-> FALSE, files |-> fs, error |-> "[Errno 28] No space left on device"]
      [] outcome = "ok" ->
            [ok |-> TRUE, files |-> fs \cup {path}, path |-> path]
      [] outcome = "http_error" ->
            [ok |-> FALSE, files |-> (fs \cup {path}) \ {path},
             error |-> "HTTP error downloading template: " \o "404" \o " " \o "Not Found"]
      [] outcome = "url_error" ->
            [ok |-> FALSE, files |-> (fs \cup {path}) \ {path},
             error |-> "URL error downloading template: " \o "Name or service not known"]
      [] OTHER ->
            [ok |-> FALSE, files |-> (fs \cup {path}) \ {path},
             error |-> "Failed to download template: " \o "timed out"]

(* ------------------------------------------------ handler, lines 215-255 *)

\* the nested config is not merged into config
ParseConfig_mut(input) ==
    [k \in ConfigKeys |-> IF Has(input, k) THEN input[k] ELSE DEFAULT_CONFIG[k]]

\* config = {**DEFAULT_CONFIG}, the four top-level copies, then config.update(nested)
ParseConfig(input) ==
    LET top == [k \in ConfigKeys |->
                    IF Has(input, k) THEN input[k] ELSE DEFAULT_CONFIG[k]]
    IN  IF Has(input, "config")
        THEN [k \in ConfigKeys |->
                 IF input["config"].v[k] # Missing THEN input["config"].v[k] ELSE top[k]]
        ELSE top

\* the name is looked at first and the URL only when no name is given
ResolveBranch_mut(name, url) ==
    IF Truthy(name) THEN "name"
    ELSE IF Truthy(url) THEN "url"
    ELSE "default"

\* if template_url: ... elif template_name: ... else: ...
ResolveBranch(name, url) ==
    IF Truthy(url) THEN "url"
    ELSE IF Truthy(name) THEN "name"
    ELSE "default"

\* the invocation ends: handler's outcome is recorded
End(res, rr, fs, od, pr) ==
    /\ pc' = "done"
    /\ result' = res
    /\ render_result' = rr
    /\ files' = fs
    /\ outData' = od
    /\ proc' = pr
    /\ history' = Append(history, res.kind)

\* handler reaches download_template(template_url) with job j
Downloads(j) ==
    /\ j.hasId
    /\ j.input # Missing
    /\ j.input.t = "dict"
    /\ Has(j.input.v, "config") => j.input.v["config"].t = "dict"
    /\ ResolveBranch(Get(j.input.v, "template"), Get(j.input.v, "template_url")) = "url"

\* a failed download is attempted a second time
Receive_mut(j, dl) ==
    /\ pc = "idle"
    /\ Len(history) < MaxJobs
    /\ job' = j
    /\ download_outcome' = (IF Downloads(j) THEN dl ELSE "none")
    /\ UNCHANGED cvars
    /\ UNCHANGED << has_gpu, output_path, hangs, child, elapsed, spawns, probes, args >>
    /\ LET job_input == IF j.input = Missing THEN PyDict(EmptyInput) ELSE j.input
           isDict == job_input.t = "dict"
           input == job_input.v
           name == IF isDict THEN Get(input, "template") ELSE None
           url == IF isDict THEN Get(input, "template_url") ELSE None
           nestedOk == isDict /\ (Has(input, "config") => input["config"].t = "dict")
           cfg == IF nestedOk THEN ParseConfig(input) ELSE DEFAULT_CONFIG
           branch == ResolveBranch(name, url)
           d == download_template(BlendFile(JobNo), dl, files)
           stay == /\ config' = cfg
                   /\ template_name' = name
                   /\ template_url' = url
                   /\ template_path' = None
                   /\ downloaded_template' = None
                   /\ downloads' = 0
       IN  IF ~j.hasId THEN
               \* job['id'] raises KeyError
               /\ End(Raised("KeyError"), None, files, outData, proc)
               /\ stay
           ELSE IF ~isDict THEN
               \* job_input.get raises AttributeError
               /\ End(Raised("AttributeError"), None, files, outData, proc)
               /\ stay
           ELSE IF ~nestedOk THEN
               \* config.update(job_input["config"]) raises TypeError
               /\ End(Raised("TypeError"), None, files, outData, proc)
               /\ stay
           ELSE IF branch = "url" THEN
               /\ config' = cfg
               /\ template_name' = name
               /\ template_url' = url
               /\ downloads' = (IF d.ok THEN 1 ELSE 2)
               /\ IF d.ok
                  THEN /\ template_path' = d.path
                       /\ downloaded_template' = d.path
                       /\ files' = d.files
                       /\ pc' = "resolved"
                       /\ UNCHANGED << result, render_result, outData, proc, history >>
                  ELSE /\ template_path' = None
                       /\ downloaded_template' = None
                       /\ End(ErrorPayload("Failed to download template: " \o d.error),
                              None, d.files, outData, proc)
           ELSE IF branch = "name" THEN
               IF name.v \notin TemplateKeys
               THEN /\ End(ErrorPayload(UnknownTemplateMsg(name.v)), None, files, outData, proc)
                    /\ stay
               ELSE /\ config' = cfg
                    /\ template_name' = name
                    /\ template_url' = url
                    /\ template_path' = TEMPLATES[name.v]
                    /\ downloaded_template' = None
                    /\ downloads' = 0
                    /\ pc' = "resolved"
                    /\ UNCHANGED << result, render_result, files, outData, proc, history >>
           ELSE
               /\ config' = cfg
               /\ template_name' = PyStr("ai_cpu_activation")
               /\ template_url' = url
               /\ template_path' = TEMPLATES["ai_cpu_activation"]
               /\ downloaded_template' = None
               /\ downloads' = 0
               /\ pc' = "resolved"
               /\ UNCHANGED << result, render_result, files, outData, proc, history >>

\* handler up to the GPU probe: read the job, build config, resolve the scene
Receive(j, dl) ==
    /\ pc = "idle"
    /\ Len(history) < MaxJobs
    /\ job' = j
    /\ download_outcome' = (IF Downloads(j) THEN dl ELSE "none")
    /\ UNCHANGED cvars
    /\ UNCHANGED << has_gpu, output_path, hangs, child, elapsed, spawns, probes, args >>
    /\ LET job_input == IF j.input = Missing THEN PyDict(EmptyInput) ELSE j.input
           isDict == job_input.t = "dict"
           input == job_input.v
           name == IF isDict THEN Get(input, "template") ELSE None
           url == IF isDict THEN Get(input, "template_url") ELSE None
           nestedOk == isDict /\ (Has(input, "config") => input["config"].t = "dict")
           cfg == IF nestedOk THEN ParseConfig(input) ELSE DEFAULT_CONFIG
           branch == ResolveBranch(name, url)
           d == download_template(BlendFile(JobNo), dl, files)
           stay == /\ config' = cfg
                   /\ template_name' = name
                   /\ template_url' = url
                   /\ template_path' = None
                   /\ downloaded_template' = None
                   /\ downloads' = 0
       IN  IF ~j.hasId THEN
               \* job['id'] raises KeyError
               /\ End(Raised("KeyError"), None, files, outData, proc)
               /\ stay
           ELSE IF ~isDict THEN
               \* job_input.get raises AttributeError
               /\ End(Raised("AttributeError"), None, files, outData, proc)
               /\ stay
           ELSE IF ~nestedOk THEN
               \* config.update(job_input["config"]) raises TypeError
               /\ End(Raised("TypeError"), None, files, outData, proc)
               /\ stay
           ELSE IF branch = "url" THEN
               /\ config' = cfg
               /\ template_name' = name
               /\ template_url' = url
               /\ downloads' = 1
               /\ IF d.ok
                  THEN /\ template_path' = d.path
                       /\ downloaded_template' = d.path
                       /\ files' = d.files
                       /\ pc' = "resolved"
                       /\ UNCHANGED << result, render_result, outData, proc, history >>
                  ELSE /\ template_path' = None
                       /\ downloaded_template' = None
                       /\ End(ErrorPayload("Failed to download template: " \o d.error),
                              None, d.files, outData, proc)
           ELSE IF branch = "name" THEN
               IF name.v \notin TemplateKeys
               THEN /\ End(ErrorPayload(UnknownTemplateMsg(name.v)), None, files, outData, proc)
                    /\ stay
               ELSE /\ config' = cfg
                    /\ template_name' = name
                    /\ template_url' = url
                    /\ template_path' = TEMPLATES[name.v]
                    /\ downloaded_template' = None
                    /\ downloads' = 0
                    /\ pc' = "resolved"
                    /\ UNCHANGED << result, render_result, files, outData, proc, history >>
           ELSE
               /\ config' = cfg
               /\ template_name' = PyStr("ai_cpu_activation")
               /\ template_url' = url
               /\ template_path' = TEMPLATES["ai_cpu_activation"]
               /\ downloaded_template' = None
               /\ downloads' = 0
               /\ pc' = "resolved"
               /\ UNCHANGED << result, render_result, files, outData, proc, history >>

(* ------------------------------------------------------------ check_gpu *)

GpuOutcomes == {"ok", "nonzero", "missing_binary", "timeout"}

\* check_gpu(): True only when nvidia-smi ran and exited 0; every exception is caught
check_gpu(outcome) == outcome = "ok"

\* a probe that times out raises out of handler
CheckGpu_mut(g) ==
    /\ pc = "resolved"
    /\ has_gpu' = check_gpu(g)
    /\ probes' = probes + 1
    /\ IF g = "timeout"
       THEN End(Raised("TimeoutExpired"), None, files, outData, proc)
       ELSE pc' = "probed" /\ UNCHANGED << files, outData, proc, render_result, result, history >>
    /\ UNCHANGED cvars
    /\ UNCHANGED << args, download_outcome, job, config, template_name, template_url,
                    template_path, downloaded_template, output_path, hangs, child,
                    elapsed, spawns, downloads >>

\* has_gpu = check_gpu()
CheckGpu(g) ==
    /\ pc = "resolved"
    /\ has_gpu' = check_gpu(g)
    /\ probes' = probes + 1
    /\ pc' = "probed"
    /\ UNCHANGED cvars
    /\ UNCHANGED << args, download_outcome, job, config, template_name, template_url, template_path,
                    downloaded_template, output_path, files, outData, proc, hangs,
                    child, elapsed, render_result, result, history, spawns, downloads >>

\* with tempfile.NamedTemporaryFile(suffix=".mp4", delete=False) as tmp: the file is
\* created empty, or the call raises; this statement stands before the try block
CreateOutput(ok) ==
    /\ pc = "probed"
    /\ IF ok
       THEN /\ output_path' = Mp4File(JobNo)
            /\ files' = files \cup {Mp4File(JobNo)}
            /\ outData' = <<>>
            /\ pc' = "created"
            /\ UNCHANGED << result, render_result, proc, history >>
       ELSE /\ output_path' = None
            /\ End(Raised("OSError"), None, files, outData, proc)
    /\ UNCHANGED cvars
    /\ UNCHANGED << args, download_outcome, job, config, template_name, template_url, template_path,
                    downloaded_template, has_gpu, hangs, child, elapsed, spawns,
                    downloads, probes >>

(* ------------------------------------------------------- render_blender *)

PathStr(f) ==
    IF f = RegistryFile THEN "/workspace/templates/ai_cpu_activation_branded.blend"
    ELSE "/tmp/tmp." \o f.kind

Failure(msg) == [success |-> FALSE, error |-> msg]

\* the samples check is missing
MissingField_mut(cfg) ==
    IF ~Truthy(cfg["resolution"]) THEN "resolution"
    ELSE IF ~Truthy(cfg["fps"]) THEN "fps"
    ELSE ""

\* the three "if not ...: return" checks in their order; "" when none fires
MissingField(cfg) ==
    IF ~Truthy(cfg["resolution"]) THEN "resolution"
    ELSE IF ~Truthy(cfg["samples"]) THEN "samples"
    ELSE IF ~Truthy(cfg["fps"]) THEN "fps"
    ELSE ""

\* render_blender before subprocess.run: the scene-file check, the parameter checks and
\* the building of cmd, where resolution[0] and resolution[1] are evaluated outside
\* any try block
RenderPrecheck(tpath, cfg, fs) ==
    IF tpath \notin fs THEN
        [kind |-> "fail", res |-> Failure("Template not found: " \o PathStr(tpath))]
    ELSE IF MissingField(cfg) # "" THEN
        [kind |-> "fail", res |-> Failure(MissingParamMsg(MissingField(cfg)))]
    ELSE IF cfg["resolution"].t # "list" THEN
        [kind |-> "raise", exc |-> "TypeError"]
    ELSE IF Len(cfg["resolution"].v) < 2 THEN
        [kind |-> "raise", exc |-> "IndexError"]
    ELSE [kind |-> "go"]

\* if result.returncode == 0 and os.path.exists(output_path)
Classify(rc, exists) == rc = 0 /\ exists

\* the finally block forgets the downloaded template
Finally_mut(fs, out, dl) == fs \ {out}

\* handler's finally block: remove the output file and the downloaded template
Finally(fs, out, dl) ==
    (fs \ {out}) \ (IF dl # None THEN {dl} ELSE {})

\* what the renderer subprocess did to the file at the output path
Effects == {[op |-> "none"], [op |-> "delete"]} \cup {[op |-> "write", data |-> b] : b \in ByteSeqs}
FilesAfter(e) == IF e.op = "delete" THEN files \ {output_path}
                 ELSE IF e.op = "write" THEN files \cup {output_path}
                 ELSE files
DataAfter(e) == IF e.op = "write" THEN e.data
                ELSE IF e.op = "delete" THEN <<>>
                ELSE outData

StderrTexts == {"", "Error: cannot read file"}

\* the number of characters of stdout that render_blender keeps
StdoutKeep == 2000

\* the captured stdout of the child: characters first..last of what it wrote, empty
\* when last < first
Stdout(n) == [first |-> 1, last |-> n]
StdoutTexts == {Stdout(n) : n \in {0, 120, StdoutKeep + 3000}}

\* the head of stdout is kept instead of the tail
StdoutTail_mut(s) ==
    IF s.last < s.first THEN None
    ELSE [first |-> s.first,
          last |-> IF s.first + StdoutKeep - 1 < s.last THEN s.first + StdoutKeep - 1
                   ELSE s.last]

\* result.stdout[-2000:] if result.stdout else None
StdoutTail(s) ==
    IF s.last < s.first THEN None
    ELSE [first |-> IF s.last - StdoutKeep + 1 > s.first THEN s.last - StdoutKeep + 1
                    ELSE s.first,
          last |-> s.last]

\* the ways a child that terminates can end, one for each way render_blender and
\* handler can tell apart: exit status, what became of the output file, captured
\* stderr and stdout, whether the captured output could be decoded (commOk), and
\* whether handler could afterwards read the output file (readOk).  Choices the code
\* cannot observe are fixed: stderr is empty on a run classified as success, a failed
\* run writes at most one byte, a failing read is paired with an untouched output
\* file, and the length of stdout varies only on a failed run that left the output
\* file alone.
ExitOutcomes ==
    { o \in [rc : {0, 1}, e : Effects, stderr : StderrTexts, stdout : StdoutTexts,
              commOk : BOOLEAN, readOk : BOOLEAN] :
        /\ ~o.commOk => (o.rc = 0 /\ o.e.op = "none" /\ o.stderr = "" /\ o.readOk)
        /\ ~o.readOk => (o.rc = 0 /\ o.e.op = "none" /\ o.commOk)
        /\ (o.rc = 0 /\ o.e.op # "delete") => o.stderr = ""
        /\ (o.rc = 1 /\ o.e.op = "write") => Len(o.e.data) = 1
        /\ ~(o.rc = 1 /\ o.e.op = "none") => o.stdout = Stdout(120) }

\* "template" is taken from the job input instead of the local template_name
SuccessPayload_mut(bytes, rr) ==
    Payload([video_base64 |-> b64encode(bytes),
             template |-> IF job.input # Missing /\ Truthy(job.input.v["template"])
                          THEN job.input.v["template"]
                          ELSE PyStr("from_url"),
             template_url |-> template_url,
             duration |-> config["duration"],
             resolution |-> config["resolution"],
             render_time_seconds |-> rr.render_time_seconds,
             file_size_bytes |-> rr.file_size_bytes,
             gpu_used |-> has_gpu])

\* "video_base64": ..., "template": template_name or "from_url", ...
SuccessPayload(bytes, rr) ==
    Payload([video_base64 |-> b64encode(bytes),
             template |-> IF Truthy(template_name) THEN template_name ELSE PyStr("from_url"),
             template_url |-> template_url,
             duration |-> config["duration"],
             resolution |-> config["resolution"],
             render_time_seconds |-> rr.render_time_seconds,
             file_size_bytes |-> rr.file_size_bytes,
             gpu_used |-> has_gpu])

DecDigits == << "0", "1", "2", "3", "4", "5", "6", "7", "8", "9" >>

RECURSIVE NatToStr(_)
NatToStr(n) ==
    IF n < 10 THEN << DecDigits[n + 1] >>
    ELSE Append(NatToStr(n \div 10), DecDigits[(n % 10) + 1])

\* str(n) for an int n
IntToStr(n) == IF n < 0 THEN << "-" >> \o NatToStr(0 - n) ELSE NatToStr(n)

DigitValue(c) == (CHOOSE i \in 1..10 : DecDigits[i] = c) - 1

RECURSIVE StrToNat(_)
StrToNat(s) ==
    IF Len(s) = 0 THEN 0
    ELSE 10 * StrToNat(SubSeq(s, 1, Len(s) - 1)) + DigitValue(s[Len(s)])

\* int(s) for the decimal text s of an int
StrToInt(s) ==
    IF Len(s) > 0 /\ s[1] = "-" THEN 0 - StrToNat(SubSeq(s, 2, Len(s))) ELSE StrToNat(s)

\* the command line of the renderer, each argument a sequence of characters
FlagOutput == << "-", "-", "o", "u", "t", "p", "u", "t" >>
FlagWidth == << "-", "-", "w", "i", "d", "t", "h" >>
FlagHeight == << "-", "-", "h", "e", "i", "g", "h", "t" >>
FlagSamples == << "-", "-", "s", "a", "m", "p", "l", "e", "s" >>
FlagFps == << "-", "-", "f", "p", "s" >>
FlagDuration == << "-", "-", "d", "u", "r", "a", "t", "i", "o", "n" >>
DashDash == << "-", "-" >>
BlenderPrefix ==
    << << "x", "v", "f", "b", "-", "r", "u", "n" >>,
       << "-", "a" >>,
       << "-", "-", "s", "e", "r", "v", "e", "r", "-", "a", "r", "g", "s", "=", "-", "s", "c", "r", "e", "e", "n", " ", "0", " ", "1", "9", "2", "0", "x", "1", "0", "8", "0", "x", "2", "4" >>,
       << "b", "l", "e", "n", "d", "e", "r" >>,
       << "-", "-", "b", "a", "c", "k", "g", "r", "o", "u", "n", "d" >> >>
ScriptArgs ==
    << << "-", "-", "p", "y", "t", "h", "o", "n" >>,
       << "/", "w", "o", "r", "k", "s", "p", "a", "c", "e", "/", "r", "e", "n", "d", "e", "r", "_", "b", "l", "e", "n", "d", ".", "p", "y" >>,
       DashDash >>

\* the characters of a file's path
PathChars(f) ==
    IF f = RegistryFile
    THEN << "/", "w", "o", "r", "k", "s", "p", "a", "c", "e", "/", "t", "e", "m", "p", "l", "a", "t", "e", "s", "/", "a", "i", "_", "c", "p", "u", "_", "a", "c", "t", "i", "v", "a", "t", "i", "o", "n", "_", "b", "r", "a", "n", "d", "e", "d", ".", "b", "l", "e", "n", "d" >>
    ELSE IF f.kind = "mp4" THEN << "/", "t", "m", "p", "/", "t", "m", "p" >> \o << DecDigits[f.n + 1] >> \o << ".", "m", "p", "4" >>
    ELSE << "/", "t", "m", "p", "/", "t", "m", "p" >> \o << DecDigits[f.n + 1] >> \o << ".", "b", "l", "e", "n", "d" >>

\* width and height change places
BuildCmd_mut(tpath, out, cfg) ==
    BlenderPrefix \o << PathChars(tpath) >> \o ScriptArgs
    \o << FlagOutput, PathChars(out),
          FlagWidth, IntToStr(cfg["resolution"].v[2]),
          FlagHeight, IntToStr(cfg["resolution"].v[1]),
          FlagSamples, IntToStr(cfg["samples"].v),
          FlagFps, IntToStr(cfg["fps"].v) >>
    \o (IF Truthy(cfg["duration"])
        THEN << FlagDuration, IntToStr(cfg["duration"].v) >> ELSE << >>)

\* cmd = [...] and cmd.extend(["--duration", str(config["duration"])])
BuildCmd(tpath, out, cfg) ==
    BlenderPrefix \o << PathChars(tpath) >> \o ScriptArgs
    \o << FlagOutput, PathChars(out),
          FlagWidth, IntToStr(cfg["resolution"].v[1]),
          FlagHeight, IntToStr(cfg["resolution"].v[2]),
          FlagSamples, IntToStr(cfg["samples"].v),
          FlagFps, IntToStr(cfg["fps"].v) >>
    \o (IF Truthy(cfg["duration"])
        THEN << FlagDuration, IntToStr(cfg["duration"].v) >> ELSE << >>)

\* sys.argv of the second-stage script: the command line from "blender" on
Argv(cmd) ==
    LET first == CHOOSE i \in 1..Len(cmd) : cmd[i] = BlenderPrefix[4]
    IN  SubSeq(cmd, first, Len(cmd))

\* the values parse_args starts from
ArgDefaults ==
    [output |-> PyList(<< "/", "t", "m", "p", "/", "o", "u", "t", "p", "u", "t", ".", "m", "p", "4" >>),
     duration |-> None,
     width |-> PyInt(1920),
     height |-> PyInt(1080),
     samples |-> PyInt(128),
     fps |-> PyInt(30)]

RECURSIVE ParseFrom(_, _, _)
\* the while loop of parse_args over custom_args, from index i on
ParseFrom(custom, i, a) ==
    IF i > Len(custom) THEN a
    ELSE IF custom[i] = FlagOutput /\ i + 1 <= Len(custom) THEN
        ParseFrom(custom, i + 2, [a EXCEPT !.output = PyList(custom[i + 1])])
    ELSE IF custom[i] = FlagDuration /\ i + 1 <= Len(custom) THEN
        ParseFrom(custom, i + 2, [a EXCEPT !.duration = PyInt(StrToInt(custom[i + 1]))])
    ELSE IF custom[i] = FlagWidth /\ i + 1 <= Len(custom) THEN
        ParseFrom(custom, i + 2, [a EXCEPT !.width = PyInt(StrToInt(custom[i + 1]))])
    ELSE IF custom[i] = FlagHeight /\ i + 1 <= Len(custom) THEN
        ParseFrom(custom, i + 2, [a EXCEPT !.height = PyInt(StrToInt(custom[i + 1]))])
    ELSE IF custom[i] = FlagSamples /\ i + 1 <= Len(custom) THEN
        ParseFrom(custom, i + 2, [a EXCEPT !.samples = PyInt(StrToInt(custom[i + 1]))])
    ELSE IF custom[i] = FlagFps /\ i + 1 <= Len(custom) THEN
        ParseFrom(custom, i + 2, [a EXCEPT !.fps = PyInt(StrToInt(custom[i + 1]))])
    ELSE ParseFrom(custom, i + 1, a)

\* parse_args(): the arguments after the first "--", or the defaults without one
parse_args(argv) ==
    IF \E i \in 1..Len(argv) : argv[i] = DashDash
    THEN LET k == CHOOSE i \in 1..Len(argv) :
                     argv[i] = DashDash /\ \A m \in 1..(i - 1) : argv[m] # DashDash
         IN  ParseFrom(SubSeq(argv, k + 1, Len(argv)), 1, ArgDefaults)
    ELSE ArgDefaults

\* handler's try block up to the spawn of the renderer: render_blender's checks fail,
\* raise, or subprocess.run starts the child (or fails to start it)
StartRender(spawnOk, h) ==
    /\ pc = "created"
    /\ LET pre == RenderPrecheck(template_path, config, files)
           cleaned == Finally(files, output_path, downloaded_template)
       IN  IF pre.kind = "fail" THEN
               /\ End(ErrorPayload(pre.res.error), pre.res, cleaned, outData, proc)
               /\ UNCHANGED << hangs, elapsed, spawns, args >>
           ELSE IF pre.kind = "raise" THEN
               /\ End(Raised(pre.exc), None, cleaned, outData, proc)
               /\ UNCHANGED << hangs, elapsed, spawns, args >>
           ELSE IF ~spawnOk THEN
               \* except Exception as e: the child could not be started
               /\ End(ErrorPayload("[Errno 2] No such file or directory: 'xvfb-run'"),
                      Failure("[Errno 2] No such file or directory: 'xvfb-run'"),
                      cleaned, outData, "failed")
               /\ UNCHANGED << hangs, elapsed, spawns, args >>
           ELSE
               /\ pc' = "running"
               /\ proc' = "running"
               /\ spawns' = spawns + 1
               /\ hangs' = h
               /\ elapsed' = 0
               /\ args' = parse_args(Argv(BuildCmd(template_path, output_path, config)))
               /\ UNCHANGED << result, render_result, files, outData, history >>
    /\ UNCHANGED cvars
    /\ UNCHANGED << download_outcome, job, config, template_name, template_url, template_path,
                    downloaded_template, has_gpu, output_path, child, downloads,
                    probes >>

\* subprocess.run was called without a timeout
TimeoutExpired_mut(t) == FALSE

\* subprocess.run(..., timeout=3600): the wait is over once the ceiling has elapsed
TimeoutExpired(t) == t >= RenderTimeout

\* time passes while subprocess.run waits for the child
Tick ==
    /\ pc = "running"
    /\ elapsed < RenderTimeout
    /\ elapsed' = IF elapsed + TickSeconds > RenderTimeout THEN RenderTimeout
                  ELSE elapsed + TickSeconds
    /\ UNCHANGED cvars
    /\ UNCHANGED << args, download_outcome, pc, job, config, template_name, template_url, template_path,
                    downloaded_template, has_gpu, output_path, files, outData, proc,
                    hangs, child, render_result, result, history, spawns, downloads,
                    probes >>

\* the child exits before the ceiling: render_blender classifies the run, handler
\* reads and encodes the output or returns the error, and the finally block runs
SubprocessExit(o) ==
    /\ pc = "running"
    /\ ~hangs
    /\ elapsed < RenderTimeout
    /\ LET rc == o.rc
           stderr == o.stderr
           commOk == o.commOk
           readOk == o.readOk
           fs == FilesAfter(o.e)
           data == DataAfter(o.e)
           cleaned == Finally(fs, output_path, downloaded_template)
           rr == IF ~commOk THEN
                     Failure("'utf-8' codec can't decode byte 0xff")
                 ELSE IF Classify(rc, output_path \in fs) THEN
                     [success |-> TRUE, render_time_seconds |-> elapsed,
                      file_size_bytes |-> Len(data), stdout |-> StdoutTail(o.stdout)]
                 ELSE
                     [success |-> FALSE,
                      error |-> IF stderr # "" THEN stderr ELSE NoOutputMsg,
                      stdout |-> StdoutTail(o.stdout),
                      render_time_seconds |-> elapsed]
       IN  IF ~rr.success THEN
               End(ErrorPayload(rr.error), rr, cleaned, <<>>, "exited")
           ELSE IF ~readOk \/ output_path \notin fs THEN
               \* open(output_path, "rb") or f.read() raises
               End(Raised("OSError"), rr, cleaned, <<>>, "exited")
           ELSE
               End(SuccessPayload(data, rr), rr, cleaned, <<>>, "exited")
    /\ child' = [rc |-> o.rc, op |-> o.e.op, data |-> DataAfter(o.e),
                 stderr |-> o.stderr, stdout |-> o.stdout, commOk |-> o.commOk,
                 readOk |-> o.readOk]
    /\ UNCHANGED cvars
    /\ UNCHANGED << args, download_outcome, job, config, template_name, template_url, template_path,
                    downloaded_template, has_gpu, output_path, hangs, elapsed,
                    spawns, downloads, probes >>

\* on timeout the render is started again
SubprocessTimeout_mut(e) ==
    /\ pc = "running"
    /\ TimeoutExpired(elapsed)
    /\ spawns' = spawns + 1
    /\ elapsed' = 0
    /\ files' = FilesAfter(e)
    /\ UNCHANGED cvars
    /\ UNCHANGED << args, download_outcome, pc, job, config, template_name, template_url, template_path,
                    downloaded_template, has_gpu, output_path, outData, proc, hangs,
                    child, render_result, result, history, downloads, probes >>

\* the ceiling elapses: subprocess.run kills the child and raises TimeoutExpired
SubprocessTimeout(e) ==
    /\ pc = "running"
    /\ TimeoutExpired(elapsed)
    /\ End(ErrorPayload(TimedOutMsg), Failure(TimedOutMsg),
           Finally(FilesAfter(e), output_path, downloaded_template), <<>>, "killed")
    /\ UNCHANGED cvars
    /\ UNCHANGED << args, download_outcome, job, config, template_name, template_url, template_path,
                    downloaded_template, has_gpu, output_path, hangs, child, elapsed,
                    spawns, downloads, probes >>

\* the platform takes handler's outcome; the worker waits for the next job
Return ==
    /\ pc = "done"
    /\ pc' = "idle"
    /\ job' = None
    /\ config' = DEFAULT_CONFIG
    /\ template_name' = None
    /\ template_url' = None
    /\ template_path' = None
    /\ downloaded_template' = None
    /\ has_gpu' = FALSE
    /\ output_path' = None
    /\ outData' = <<>>
    /\ proc' = "none"
    /\ hangs' = FALSE
    /\ child' = None
    /\ elapsed' = 0
    /\ render_result' = None
    /\ result' = NoResult
    /\ spawns' = 0
    /\ downloads' = 0
    /\ probes' = 0
    /\ download_outcome' = "none"
    /\ args' = None
    /\ UNCHANGED << files, history >>
    /\ UNCHANGED cvars

Next ==
    \/ pc = "idle" /\ \E j \in Jobs, dl \in DownloadOutcomes : Receive(j, dl)
    \/ pc = "resolved" /\ \E g \in GpuOutcomes : CheckGpu(g)
    \/ pc = "probed" /\ \E ok \in BOOLEAN : CreateOutput(ok)
    \/ pc = "created" /\ \E spawnOk \in BOOLEAN, h \in BOOLEAN : StartRender(spawnOk, h)
    \/ Tick
    \/ pc = "running" /\ \E o \in ExitOutcomes : SubprocessExit(o)
    \/ pc = "running" /\ \E e \in Effects : SubprocessTimeout(e)
    \/ Return

Spec == Init /\ [][Next]_vars

\* time passes while the child runs, and the timeout of subprocess.run fires once the
\* ceiling has elapsed
FairSpec == Spec /\ WF_vars(Tick) /\ WF_vars(\E e \in Effects : SubprocessTimeout(e))

(* ------------------------------------- client drivers: render.py, test_endpoint.py *)

\* longest time, in seconds, a status request takes to be answered
LatencySlow == 600
\* longest time, in seconds, a job waits in the platform's queue
QueueDelay == 30

\* CONFIG["timeout"] of render.py
ClientTimeout == 2100
\* the literal in "elif elapsed > 1200" of test_endpoint.py
TestTimeout == 1200
\* CONFIG["poll_interval"] of render.py
PollInterval == 10
\* the literal in "time.sleep(10)" of test_endpoint.py
TestPollInterval == 10

Drivers == {"render", "test_endpoint"}

\* the loop never gives up on its own
Ceiling_mut(d) == 10 * RenderTimeout

\* the ceiling on local elapsed time in the poll loop of driver d
Ceiling(d) == IF d = "render" THEN ClientTimeout ELSE TestTimeout

\* the pause between two polls of driver d
Interval(d) == IF d = "render" THEN PollInterval ELSE TestPollInterval

\* render.py checks nothing at startup
StartupFails_mut(d, e) == d = "test_endpoint" /\ (~e.api_key \/ ~e.endpoint_id)

\* the "if not ...: exit(1)" checks at import time: render.py tests RUNPOD_API_KEY only,
\* test_endpoint.py tests RUNPOD_API_KEY and RUNPOD_BLENDER_ENDPOINT_ID
StartupFails(d, e) ==
    IF d = "render" THEN ~e.api_key
    ELSE ~e.api_key \/ ~e.endpoint_id

\* ENDPOINT_ID: render.py falls back to a fixed id when the variable is not set
EndpointId(d, e) ==
    IF e.endpoint_id THEN "my-endpoint"
    ELSE IF d = "render" THEN "9ypr4dw7bjj7xi"
    ELSE "None"

\* BASE_URL
BaseUrl(d, e) == "https://api.runpod.ai/v2/" \o EndpointId(d, e)

\* f"{job_id}"
IdStr(id) == IF id = None THEN "None" ELSE id.v

\* the poll goes to the cancel path
StatusPath_mut(id) == "/cancel/" \o IdStr(id)

\* f"{BASE_URL}/status/{job_id}" without the base
StatusPath(id) == "/status/" \o IdStr(id)

Request(method, url) == [method |-> method, url |-> url]

\* every response is taken as accepted
SubmitAccepted_mut(code) == TRUE

\* the negation of "if response.status_code != 200: ... return"
SubmitAccepted(code) == code = 200

\* only COMPLETED ends the loop
IsTerminal_mut(s) == s = PyStr("COMPLETED")

\* the statuses that end the loop: "if status == 'COMPLETED'", "elif status == 'FAILED'"
IsTerminal(s) == s = PyStr("COMPLETED") \/ s = PyStr("FAILED")

\* status codes of the submission response; 0 stands for requests.post raising
SubmitCodes == {200, 202, 401, 500, 0}
\* data.get("id") of an accepted submission
JobIds == {PyStr("job-1"), None}

\* status_data.get("status") while the job has not ended (None: no "status" key)
NonTerminal == {PyStr("IN_PROGRESS"), PyStr("CANCELLED"), None}

VideoBytes == << 0, 255 >>
OutputKeys == {"video_base64", "file_size_bytes"}
\* the fields of handler's success payload that the clients read
HandlerOutput ==
    [k \in OutputKeys |-> IF k = "video_base64" THEN PyList(b64encode(VideoBytes))
                          ELSE PyInt(Len(VideoBytes))]

\* status_data["output"] of a COMPLETED job: a handler success payload, one without
\* file_size_bytes, one without video_base64, and none at all
CompletedOutputs ==
    { [k \in OutputKeys |-> IF k = "video_base64" THEN PyList(b64encode(VideoBytes))
                            ELSE PyInt(Len(VideoBytes))],
      [k \in OutputKeys |-> IF k = "video_base64" THEN PyList(b64encode(VideoBytes))
                            ELSE Missing],
      [k \in OutputKeys |-> IF k = "video_base64" THEN Missing
                            ELSE PyInt(Len(VideoBytes))],
      [k \in OutputKeys |-> Missing] }

\* status_data["output"] of a FAILED job: none, or diagnostic fields next to a video
FailedOutputs ==
    { [k \in OutputKeys |-> Missing],
      [k \in OutputKeys |-> IF k = "video_base64" THEN PyList(b64encode(VideoBytes))
                            ELSE PyInt(Len(VideoBytes))] }

\* the base64 blob is printed with the other fields
PrintedFields_mut(out) ==
    IF Truthy(PyDict(out)) THEN {k \in DOMAIN out : out[k] # Missing} ELSE {}

\* the FAILED branch: "for k, v in output.items(): if k != 'video_base64': print(...)"
PrintedFields(out) ==
    IF Truthy(PyDict(out))
    THEN {k \in DOMAIN out : out[k] # Missing /\ k # "video_base64"}
    ELSE {}

\* CONFIG of render.py as the repository has it
CONFIG ==
    [template |-> PyStr("ai_cpu_activation"),
     template_url |-> None,
     duration |-> None,
     resolution |-> PyList(<< 1920, 1080 >>),
     samples |-> PyInt(128),
     fps |-> PyInt(24)]

\* the arguments of test_render when test_endpoint.py is run without arguments
TestArgs ==
    [template |-> PyStr("ai_cpu_activation"), duration |-> PyInt(8), samples |-> PyInt(128)]

\* what driver d builds its payload from, as the repository has it
DefaultConfig(d) == IF d = "render" THEN CONFIG ELSE TestArgs

\* edited values of CONFIG, and command-line arguments of test_endpoint.py
Configs(d) ==
    IF d = "render"
    THEN [template : {PyStr("ai_cpu_activation"), PyStr("neural_network"), None},
          template_url : {None, PyStr(""), PyStr(TemplateUrl)},
          duration : {None, PyInt(0), PyInt(8)},
          resolution : {PyList(<< 1920, 1080 >>)},
          samples : {PyInt(128), PyInt(64)},
          fps : {PyInt(24)}]
    ELSE [template : {PyStr("ai_cpu_activation"), PyStr("neural_network")},
          duration : {PyInt(0), PyInt(4), PyInt(8)},
          samples : {PyInt(128), PyInt(64)}]

\* render.py sends the URL next to the name
BuildPayload_mut(d, c) ==
    [k \in InputKeys |->
        IF d = "render" THEN
            CASE k = "resolution" -> c.resolution
              [] k = "samples" -> c.samples
              [] k = "fps" -> c.fps
              [] k = "template_url" -> IF Truthy(c.template_url) THEN c.template_url ELSE Missing
              [] k = "template" -> c.template
              [] k = "duration" -> IF Truthy(c.duration) THEN c.duration ELSE Missing
              [] OTHER -> Missing
        ELSE
            CASE k = "template" -> c.template
              [] k = "resolution" -> PyList(<< 1920, 1080 >>)
              [] k = "samples" -> c.samples
              [] k = "duration" -> IF Truthy(c.duration) THEN c.duration ELSE Missing
              [] OTHER -> Missing]

\* payload["input"]: run_render takes resolution, samples and fps from CONFIG, the URL
\* or else the name, and the duration when it is set; test_render takes the name, a
\* fixed resolution, samples, and the duration when it is set, and no fps
BuildPayload(d, c) ==
    [k \in InputKeys |->
        IF d = "render" THEN
            CASE k = "resolution" -> c.resolution
              [] k = "samples" -> c.samples
              [] k = "fps" -> c.fps
              [] k = "template_url" -> IF Truthy(c.template_url) THEN c.template_url ELSE Missing
              [] k = "template" -> IF Truthy(c.template_url) THEN Missing ELSE c.template
              [] k = "duration" -> IF Truthy(c.duration) THEN c.duration ELSE Missing
              [] OTHER -> Missing
        ELSE
            CASE k = "template" -> c.template
              [] k = "resolution" -> PyList(<< 1920, 1080 >>)
              [] k = "samples" -> c.samples
              [] k = "duration" -> IF Truthy(c.duration) THEN c.duration ELSE Missing
              [] OTHER -> Missing]

\* what becomes of the submitted job on the platform: the final status, the time after
\* start_time from which status requests report it, and what comes with it.  A render
\* that hits the worker's timeout is reported FAILED no earlier than that timeout.
Scenarios ==
    { [final |-> None, at |-> 0, output |-> [k \in OutputKeys |-> Missing], error |-> ""] }
    \cup { [final |-> PyStr("COMPLETED"), at |-> QueueDelay, output |-> o, error |-> ""] :
             o \in CompletedOutputs }
    \cup { [final |-> PyStr("COMPLETED"), at |-> t, output |-> HandlerOutput, error |-> ""] :
             t \in {0, ClientTimeout - LatencySlow, ClientTimeout + LatencySlow} }
    \cup { [final |-> PyStr("COMPLETED"), at |-> ClientTimeout + LatencySlow,
            output |-> [HandlerOutput EXCEPT !["file_size_bytes"] = Missing], error |-> ""] }
    \cup { [final |-> PyStr("FAILED"), at |-> QueueDelay, output |-> o, error |-> NoOutputMsg] :
             o \in FailedOutputs }
    \cup { [final |-> PyStr("FAILED"), at |-> t, output |-> [k \in OutputKeys |-> Missing],
            error |-> NoOutputMsg] :
             t \in {ClientTimeout - LatencySlow, ClientTimeout + LatencySlow} }
    \cup { [final |-> PyStr("FAILED"), at |-> RenderTimeout + q,
            output |-> [k \in OutputKeys |-> Missing], error |-> TimedOutMsg] :
             q \in {0, QueueDelay} }

\* the client's locals before anything has run
ClientFresh ==
    /\ cpc = "load"
    /\ now = 0
    /\ poll_elapsed = 0
    /\ response_code = 0
    /\ job_id = None
    /\ srv = None
    /\ status = None
    /\ posts = 0
    /\ gets = 0
    /\ sent = {}
    /\ writes = 0
    /\ local_file = None
    /\ client_end = "none"
    /\ payload = None
    /\ printed = {}

\* a client script is started, as the repository has it, with some of the two
\* environment variables set
ClientInit ==
    /\ WorkerInit
    /\ files = {}
    /\ driver \in Drivers
    /\ env \in [api_key : BOOLEAN, endpoint_id : BOOLEAN]
    /\ client_config = DefaultConfig(driver)
    /\ ClientFresh

\* a client script is started with CONFIG edited, or with command-line arguments
PayloadInit ==
    /\ WorkerInit
    /\ files = {}
    /\ driver \in Drivers
    /\ env \in [api_key : BOOLEAN, endpoint_id : BOOLEAN]
    /\ client_config \in Configs(driver)
    /\ ClientFresh

\* the client run is over
Ended(how) ==
    /\ cpc' = "ended"
    /\ client_end' = how

\* module level of the script: read the environment, exit(1) when a checked variable
\* is missing
Startup ==
    /\ cpc = "load"
    /\ IF StartupFails(driver, env)
       THEN Ended("exit1")
       ELSE cpc' = "ready" /\ UNCHANGED client_end
    /\ UNCHANGED << driver, env, now, poll_elapsed, response_code, job_id, srv, status,
                    posts, gets, sent, writes, local_file, client_config, payload,
                    printed >>
    /\ UNCHANGED wvars

\* run_render / test_render up to the loop: one requests.post to /run; a response
\* other than 200 ends the run, a 200 gives the job id and start_time is taken
Submit(code, id, sc) ==
    /\ cpc = "ready"
    /\ payload' = BuildPayload(driver, client_config)
    /\ posts' = posts + 1
    /\ sent' = sent \cup {Request("POST", BaseUrl(driver, env) \o "/run")}
    /\ response_code' = code
    /\ now' = 0
    /\ IF code = 0 THEN
           \* requests.post raised
           /\ Ended("crashed")
           /\ UNCHANGED << job_id, srv >>
       ELSE IF ~SubmitAccepted(code) THEN
           /\ Ended("http_error")
           /\ UNCHANGED << job_id, srv >>
       ELSE
           /\ cpc' = "polling"
           /\ job_id' = id
           /\ srv' = sc
           /\ UNCHANGED client_end
    /\ UNCHANGED << driver, env, poll_elapsed, status, gets, writes, local_file,
                    client_config, printed >>
    /\ UNCHANGED wvars

\* one turn of the "while True" loop: elapsed is computed, one requests.get is sent and
\* answered after lat seconds (or raises), then the status is tested: COMPLETED prints
\* the output fields and writes the decoded video, FAILED prints the error, a turn whose
\* elapsed is above the ceiling ends the loop, any other turn sleeps
Poll(lat, s, ok) ==
    /\ cpc = "polling"
    /\ LET t == now + lat
           st == IF srv.final # None /\ t >= srv.at THEN srv.final ELSE s
           out == srv.output
           head == {"Template", "Duration", "Resolution", "Render time"}
       IN  /\ poll_elapsed' = now
           /\ gets' = gets + 1
           /\ sent' = sent \cup {Request("GET", BaseUrl(driver, env) \o StatusPath(job_id))}
           /\ IF ~ok THEN
                  \* requests.get or status_response.json() raised
                  /\ Ended("crashed")
                  /\ now' = t
                  /\ printed' = {}
                  /\ UNCHANGED << status, writes, local_file >>
              ELSE IF IsTerminal(st) /\ st = PyStr("COMPLETED") THEN
                  /\ status' = st
                  /\ now' = t
                  /\ IF out["file_size_bytes"] = Missing THEN
                         \* f"{output.get('file_size_bytes'):,}" raises TypeError on None
                         /\ Ended("crashed")
                         /\ printed' = head
                         /\ UNCHANGED << writes, local_file >>
                     ELSE IF Truthy(Get(out, "video_base64")) THEN
                         /\ Ended("completed")
                         /\ printed' = head \cup {"File size", "GPU used", "Saved to"}
                         /\ writes' = writes + 1
                         /\ local_file' = PyList(b64decode(out["video_base64"].v))
                     ELSE
                         /\ Ended("completed")
                         /\ printed' = head \cup {"File size", "GPU used"}
                         /\ UNCHANGED << writes, local_file >>
              ELSE IF IsTerminal(st) THEN
                  /\ status' = st
                  /\ now' = t
                  /\ Ended("failed")
                  /\ printed' = {"Error"} \cup PrintedFields(out)
                  /\ UNCHANGED << writes, local_file >>
              ELSE IF now > Ceiling(driver) THEN
                  /\ status' = st
                  /\ now' = t
                  /\ Ended("timeout")
                  /\ printed' = {"Timeout"}
                  /\ UNCHANGED << writes, local_file >>
              ELSE
                  /\ status' = st
                  /\ now' = t + Interval(driver)
                  /\ printed' = {}
                  /\ UNCHANGED << cpc, client_end, writes, local_file >>
    /\ UNCHANGED << driver, env, response_code, job_id, srv, posts, client_config, payload >>
    /\ UNCHANGED wvars

ClientNext ==
    \/ Startup
    \/ cpc = "ready" /\ \E code \in SubmitCodes, id \in JobIds, sc \in Scenarios :
                            Submit(code, id, sc)
    \/ cpc = "polling" /\ \E lat \in {0, LatencySlow}, s \in NonTerminal, ok \in BOOLEAN :
                            Poll(lat, s, ok)

ClientSpec == ClientInit /\ [][ClientNext]_vars

\* the client up to its submission, for every edited CONFIG and argument list
PayloadNext ==
    \/ Startup
    \/ cpc = "ready" /\ \E code \in SubmitCodes, id \in JobIds, sc \in Scenarios :
                            Submit(code, id, sc)

PayloadSpec == PayloadInit /\ [][PayloadNext]_vars

\* every status request is answered (or fails) and every sleep ends
ClientFairSpec ==
    ClientSpec
    /\ WF_vars(\E lat \in {0, LatencySlow}, s \in NonTerminal, ok \in BOOLEAN : Poll(lat, s, ok))

(* --------------------------------------------------------------- claims *)

\* the input dict of the job in hand, as handler reads it
JobInput ==
    IF job = None THEN EmptyInput
    ELSE IF job.input = Missing THEN EmptyInput
    ELSE IF job.input.t # "dict" THEN EmptyInput
    ELSE job.input.v
ReqName == Get(JobInput, "template")
ReqUrl == Get(JobInput, "template_url")
\* the job has an id, a dict (or no) input and a dict (or no) nested config
WellFormed ==
    /\ job # None
    /\ job.hasId
    /\ job.input = Missing \/ job.input.t = "dict"
    /\ Has(JobInput, "config") => JobInput["config"].t = "dict"

IsPayload == result.kind = "payload"
IsError == IsPayload /\ "error" \in DOMAIN result.payload
IsSuccess == IsPayload /\ "video_base64" \in DOMAIN result.payload

\* C1 (as claimed): every invocation ends with a payload; no exception leaves handler.
C1_NoExceptionEscapes ==
    pc = "done" => result.kind = "payload"

\* C2 (as claimed): a renderer that exits 0 without creating the output file itself
\* makes the render a failure and handler's result an error payload.
C2_ZeroExitWithoutOutputFails ==
    (pc = "done" /\ proc = "exited" /\ child.rc = 0 /\ child.op # "write"
        /\ child.commOk /\ child.readOk)
        => (~render_result.success /\ IsError)

\* C3: once invocations have ended, no temporary output file and no downloaded template
\* made by an invocation that ended with a payload still exists.
C3_NoLeftoverFiles ==
    pc \in {"done", "idle"} =>
        \A f \in files : f.kind \in {"blend", "mp4"} => history[f.n] = "raised"

\* two invocations have ended with payloads, the second after a download and a render
C3_Witness ==
    /\ pc = "done"
    /\ history = << "payload", "payload" >>
    /\ downloads = 1
    /\ downloaded_template # None
    /\ proc = "exited"
    /\ files \subseteq {RegistryFile}

\* C4 (as claimed): a downloaded template is gone when its invocation ends, whatever
\* step after the download ended it.
C4_DownloadedTemplateDeleted ==
    (pc = "done" /\ downloaded_template # None) => downloaded_template \notin files

\* C5 (as claimed): a job with a template name never causes a download.
C5_NameTakesPrecedence ==
    (pc # "idle" /\ WellFormed /\ Truthy(ReqName)) => downloads = 0

\* C5 (amended): a job with a non-empty template_url is resolved by downloading it,
\* whatever name it carries; the registry path is used only when there is no such URL.
C5_UrlTakesPrecedence ==
    (pc # "idle" /\ WellFormed) =>
        /\ downloads = (IF Truthy(ReqUrl) THEN 1 ELSE 0)
        /\ (Truthy(ReqUrl) /\ template_path # None) =>
               (template_path = BlendFile(IF pc = "done" THEN Len(history) ELSE JobNo)
                /\ downloaded_template = template_path)
        /\ (~Truthy(ReqUrl) /\ template_path # None) =>
               (template_path = RegistryFile /\ downloaded_template = None)

\* a job with both a registry name and a URL has been resolved by download
C5_Witness ==
    /\ pc = "resolved"
    /\ WellFormed
    /\ ReqName = PyStr("ai_cpu_activation")
    /\ Truthy(ReqUrl)
    /\ downloads = 1
    /\ template_path.kind = "blend"

UnknownName == Truthy(ReqName) /\ ReqName.v \notin TemplateKeys

\* C6 (as claimed): a job whose template name is not in the registry gets the
\* unknown-template error payload, with no download and no subprocess call.
C6_UnknownNameAlwaysRejected ==
    (pc # "idle" /\ WellFormed /\ UnknownName) =>
        /\ downloads = 0 /\ probes = 0 /\ spawns = 0
        /\ pc = "done"
        /\ result = ErrorPayload("Unknown template: neural_network. Available: ['ai_cpu_activation']")

\* C6 (amended): a job without a non-empty template_url whose template name is a
\* non-empty string outside the registry causes no download and no subprocess call,
\* and, when the job is well formed, ends with the error payload that holds the name
\* and the list of valid names.
C6_UnknownNameRejectedWithoutUrl ==
    (pc # "idle" /\ job # None /\ UnknownName /\ ~Truthy(ReqUrl)) =>
        /\ downloads = 0 /\ probes = 0 /\ spawns = 0
        /\ pc = "done"
        /\ IsPayload => WellFormed
        /\ WellFormed =>
             result = ErrorPayload("Unknown template: neural_network. Available: ['ai_cpu_activation']")

\* an unknown name without a URL has been rejected
C6_Witness ==
    /\ pc = "done"
    /\ WellFormed
    /\ ReqName = PyStr("neural_network")
    /\ ~Truthy(ReqUrl)
    /\ IsError

\* render_blender has been called in this invocation
RenderCalled == output_path # None /\ pc \in {"running", "done"}
MissingSet == {k \in {"resolution", "samples", "fps"} : ~Truthy(config[k])}
\* the scene file was there when render_blender looked for it
SceneExisted == template_path # RegistryFile \/ RegistryFile \in files

\* C7 (as claimed): a render_blender call with resolution, samples or fps missing
\* returns a failure that names a missing field, and spawns no subprocess.
C7_MissingFieldAlwaysNamed ==
    (RenderCalled /\ MissingSet # {}) =>
        /\ spawns = 0
        /\ pc = "done"
        /\ render_result \in {Failure("Missing required parameter: " \o k) : k \in MissingSet}

\* C7 (amended): such a call spawns no subprocess and returns a failure; when the scene
\* file exists the error names the first missing field in the order resolution,
\* samples, fps, and when it does not exist the error is the template-not-found one.
C7_MissingFieldNamedWhenSceneExists ==
    (RenderCalled /\ MissingSet # {}) =>
        /\ spawns = 0
        /\ pc = "done"
        /\ render_result.success = FALSE
        /\ SceneExisted =>
             render_result.error =
                 (IF "resolution" \in MissingSet THEN "Missing required parameter: resolution"
                  ELSE IF "samples" \in MissingSet THEN "Missing required parameter: samples"
                  ELSE "Missing required parameter: fps")
        /\ ~SceneExisted =>
             render_result.error =
                 "Template not found: /workspace/templates/ai_cpu_activation_branded.blend"
        /\ result = ErrorPayload(render_result.error)

\* render_blender has refused a config that lacks samples only
C7_Witness ==
    /\ pc = "done"
    /\ RenderCalled
    /\ SceneExisted
    /\ MissingSet = {"samples"}
    /\ render_result = Failure("Missing required parameter: samples")
    /\ spawns = 0

\* C8: when the renderer wrote bytes B to the output path and exited 0, a success
\* payload's video_base64 decodes to B and its file_size_bytes is the length of B; the
\* payload is a success one whenever the output could be captured and read.
C8_RoundTrip ==
    (pc = "done" /\ proc = "exited" /\ child.rc = 0 /\ child.op = "write") =>
        /\ IsSuccess =>
             /\ b64decode(result.payload.video_base64) = child.data
             /\ result.payload.file_size_bytes = Len(child.data)
        /\ (child.commOk /\ child.readOk) => IsSuccess

\* a two-byte output (one padding character) came back in a success payload
C8_Witness ==
    /\ pc = "done"
    /\ proc = "exited"
    /\ child.rc = 0
    /\ child.op = "write"
    /\ Len(child.data) = 2
    /\ IsSuccess

\* C9: a render whose subprocess never terminates ends: the ceiling elapses,
\* render_blender returns the timed-out failure and handler an error payload.
C9_HungRenderTimesOut ==
    (pc = "running" /\ hangs) ~>
        (/\ pc = "done"
         /\ proc = "killed"
         /\ render_result = Failure("Render timed out after 1 hour")
         /\ result = ErrorPayload("Render timed out after 1 hour"))

\* a hanging subprocess has been killed at the ceiling
C9_Witness ==
    /\ pc = "done"
    /\ hangs
    /\ proc = "killed"
    /\ elapsed = RenderTimeout
    /\ IsError

\* C10: an invocation spawns the renderer at most once, and not at all when template
\* resolution or parameter validation failed.
C10_AtMostOneSpawn ==
    /\ spawns \in {0, 1}
    /\ (pc = "done" /\ output_path = None) => spawns = 0
    /\ (pc = "done" /\ RenderCalled /\ MissingSet # {}) => spawns = 0
    /\ (pc = "done" /\ spawns = 1) => proc \in {"exited", "killed"}

\* a render failed after its one spawn and the invocation ended without another
C10_Witness ==
    /\ pc = "done"
    /\ spawns = 1
    /\ proc = "exited"
    /\ child.rc = 1
    /\ IsError

\* C15: a well-formed job with neither a template name nor a template_url is resolved
\* to the registry entry 'ai_cpu_activation' without a download, and a success payload
\* reports that name as its template.
C15_DefaultTemplate ==
    (pc # "idle" /\ WellFormed /\ ~Truthy(ReqName) /\ ~Truthy(ReqUrl)) =>
        /\ downloads = 0
        /\ downloaded_template = None
        /\ template_name = PyStr("ai_cpu_activation")
        /\ template_path = RegistryFile
        /\ IsSuccess => result.payload.template = PyStr("ai_cpu_activation")

\* a job without name and URL has been rendered from the default scene
C15_Witness ==
    /\ pc = "done"
    /\ WellFormed
    /\ ~Truthy(ReqName)
    /\ ~Truthy(ReqUrl)
    /\ IsSuccess
    /\ result.payload.template = PyStr("ai_cpu_activation")
    /\ downloads = 0

\* the download of this invocation failed
DownloadFailed == download_outcome \notin {"none", "ok"}

\* C16: when the template download fails, the invocation ends at once with an error
\* payload whose message describes the failure (for an HTTP error it holds 'HTTP error'
\* and the status code), and the temporary file of the download does not exist.
C16_DownloadFailureReported ==
    (pc # "idle" /\ DownloadFailed) =>
        /\ pc = "done"
        /\ downloads = 1 /\ probes = 0 /\ spawns = 0
        /\ BlendFile(Len(history)) \notin files
        /\ result = ErrorPayload(
             CASE download_outcome = "http_error" ->
                    "Failed to download template: HTTP error downloading template: 404 Not Found"
               [] download_outcome = "url_error" ->
                    "Failed to download template: URL error downloading template: Name or service not known"
               [] download_outcome = "io_error" ->
                    "Failed to download template: Failed to download template: timed out"
               [] OTHER ->
                    "Failed to download template: [Errno 28] No space left on device")

\* a download that met a 404 has been reported
C16_Witness ==
    /\ pc = "done"
    /\ download_outcome = "http_error"
    /\ downloads = 1
    /\ IsError
    /\ BlendFile(Len(history)) \notin files

\* C17 (as claimed): render_blender never raises; every call of it that has ended left
\* a result with success = False or True to its caller.
C17_RenderBlenderNeverRaises ==
    (pc = "done" /\ RenderCalled) => render_result # None

\* the top-level request values of the job in hand
ReqDuration == Get(JobInput, "duration")
ReqResolution == Get(JobInput, "resolution")
\* the job names a registry template and gives resolution, samples and fps
ExplicitRegistryJob ==
    /\ WellFormed
    /\ Truthy(ReqName)
    /\ ReqName.v \in TemplateKeys
    /\ Has(JobInput, "resolution") /\ Has(JobInput, "samples") /\ Has(JobInput, "fps")
\* the value of key k in the nested config, Missing when there is none
NestedValue(k) ==
    IF Has(JobInput, "config") THEN JobInput["config"].v[k] ELSE Missing

\* C20 (as claimed): the success payload of such a job echoes the requested name,
\* resolution and duration (null when none was given), carries render_time_seconds and
\* file_size_bytes of the render result and gpu_used of the GPU probe.
C20_PayloadEchoesRequest ==
    (pc = "done" /\ IsSuccess /\ ExplicitRegistryJob) =>
        /\ result.payload.template = ReqName
        /\ result.payload.resolution = ReqResolution
        /\ result.payload.duration = ReqDuration
        /\ result.payload.render_time_seconds = render_result.render_time_seconds
        /\ result.payload.file_size_bytes = render_result.file_size_bytes
        /\ result.payload.gpu_used = has_gpu

\* C20 (amended): as claimed, except that resolution and duration are those of the
\* nested config whenever the nested config holds the key, and the top-level ones
\* (null for an absent duration) otherwise.
C20_PayloadEchoesMergedConfig ==
    (pc = "done" /\ IsSuccess /\ ExplicitRegistryJob) =>
        /\ "video_base64" \in DOMAIN result.payload
        /\ result.payload.template = ReqName
        /\ result.payload.resolution =
             (IF NestedValue("resolution") # Missing THEN NestedValue("resolution")
              ELSE ReqResolution)
        /\ result.payload.duration =
             (IF NestedValue("duration") # Missing THEN NestedValue("duration")
              ELSE ReqDuration)
        /\ result.payload.render_time_seconds = render_result.render_time_seconds
        /\ result.payload.file_size_bytes = render_result.file_size_bytes
        /\ result.payload.gpu_used = has_gpu

\* a registry job with a top-level duration and a nested one has succeeded on a GPU
C20_Witness ==
    /\ pc = "done"
    /\ IsSuccess
    /\ ExplicitRegistryJob
    /\ ReqDuration = PyInt(8)
    /\ NestedValue("duration") = PyInt(4)
    /\ result.payload.duration = PyInt(4)
    /\ has_gpu
    /\ result.payload.gpu_used

(* -------------------------------------------------------- client claims *)

\* the client has sent its submission
Submitted == posts = 1
\* the submitted job is one whose render hits the worker's subprocess timeout
WorkerTimeoutJob == srv # None /\ srv.final = PyStr("FAILED") /\ srv.error = TimedOutMsg
\* the platform reports COMPLETED with a video in the output
CompletedWithVideo ==
    /\ srv # None
    /\ status = PyStr("COMPLETED")
    /\ Truthy(Get(srv.output, "video_base64"))

\* C11: after an accepted submission the poll loop ends: a poll that observes COMPLETED
\* or FAILED is the last one, no poll follows the end of the run, a loop turn with no
\* terminal status goes on only while its elapsed time is within the ceiling, a timeout
\* exit happens only above the ceiling, and every run that polls comes to its end.
C11_PollLoopTerminates ==
    /\ [](status \in {PyStr("COMPLETED"), PyStr("FAILED")} => cpc = "ended")
    /\ [][cpc = "ended" => gets' = gets]_vars
    /\ [](cpc = "polling" => poll_elapsed <= Ceiling(driver))
    /\ [](client_end = "timeout" =>
            (poll_elapsed > Ceiling(driver) /\ status \in NonTerminal))
    /\ (cpc = "polling") ~> (cpc = "ended")

\* a run that only ever saw non-terminal statuses, the last one outside
\* IN_QUEUE/IN_PROGRESS, has ended on the ceiling
C11_Witness ==
    /\ cpc = "ended"
    /\ client_end = "timeout"
    /\ status = PyStr("CANCELLED")
    /\ gets > 2
    /\ poll_elapsed > Ceiling(driver)

\* C12 (as claimed): the client's ceiling is above the worker's subprocess timeout, and
\* a run whose job hits that timeout ends by observing FAILED, not by its own timeout.
C12_ClientOutlastsWorkerTimeout ==
    (cpc = "ended" /\ WorkerTimeoutJob /\ client_end \in {"failed", "timeout"}) =>
        /\ Ceiling(driver) > RenderTimeout
        /\ client_end = "failed"

\* C12 (amended): both ceilings are below the worker's subprocess timeout, and a run
\* whose job hits that timeout, with every status request answered within LatencySlow
\* seconds, ends on the client's own timeout without having observed FAILED and
\* without an output file.
C12_ClientTimesOutFirst ==
    /\ ClientTimeout + 2 * LatencySlow + PollInterval < RenderTimeout
    /\ TestTimeout + 2 * LatencySlow + TestPollInterval < RenderTimeout
    /\ (cpc = "ended" /\ WorkerTimeoutJob /\ client_end # "crashed") =>
          /\ client_end = "timeout"
          /\ status # PyStr("FAILED")
          /\ now < RenderTimeout
          /\ writes = 0

\* render.py has given up on a job that the worker will fail at its one-hour timeout
C12_Witness ==
    /\ cpc = "ended"
    /\ driver = "render"
    /\ WorkerTimeoutJob
    /\ client_end = "timeout"
    /\ poll_elapsed > ClientTimeout
    /\ now < RenderTimeout

\* C13 (as claimed): a run that observes COMPLETED with a valid base64 video in the
\* output writes the decoded bytes to its output file exactly once and stops, whatever
\* else the output holds.
C13_CompletedVideoWrittenOnce ==
    (cpc = "ended" /\ CompletedWithVideo) =>
        /\ writes = 1
        /\ local_file = PyList(VideoBytes)

\* C14 (as claimed): a driver started without the API key or without the endpoint id
\* exits at startup and sends no submission.
C14_MissingEnvAlwaysFatal ==
    (cpc # "load" /\ (~env.api_key \/ ~env.endpoint_id)) =>
        /\ client_end = "exit1"
        /\ posts = 0

\* C14 (amended): a driver started without the API key exits at startup and sends no
\* request; test_endpoint.py does the same without the endpoint id, while render.py
\* then goes on with its built-in endpoint id and sends its requests there.
C14_MissingEnvFatalExceptFallback ==
    /\ (cpc # "load" /\ (~env.api_key \/ (driver = "test_endpoint" /\ ~env.endpoint_id))) =>
          /\ cpc = "ended"
          /\ client_end = "exit1"
          /\ posts = 0 /\ gets = 0 /\ sent = {}
    /\ (cpc # "load" /\ env.api_key /\ (driver = "render" \/ env.endpoint_id)) =>
          client_end # "exit1"
    /\ (driver = "render" /\ ~env.endpoint_id) =>
          \A r \in sent : \E path \in {"/run", "/status/job-1", "/status/None"} :
              r.url = "https://api.runpod.ai/v2/9ypr4dw7bjj7xi" \o path

\* render.py, started with the key but without the endpoint id, has submitted a job
C14_Witness ==
    /\ driver = "render"
    /\ env.api_key
    /\ ~env.endpoint_id
    /\ posts = 1
    /\ Request("POST", "https://api.runpod.ai/v2/9ypr4dw7bjj7xi/run") \in sent

\* C18: a run sends at most one submission, exactly one once it is past startup, and a
\* response other than 200 (so every non-2xx one) ends it with no status poll and no
\* output file.
C18_SinglePostNoRetry ==
    /\ posts <= 1
    /\ (cpc = "polling" \/ (cpc = "ended" /\ client_end # "exit1")) => posts = 1
    /\ Cardinality({r \in sent : r.method = "POST"}) <= 1
    /\ (Submitted /\ response_code # 200) =>
          /\ cpc = "ended"
          /\ gets = 0
          /\ writes = 0
          /\ local_file = None
    /\ (Submitted /\ response_code \notin (200..299) \cup {0}) => client_end = "http_error"

\* a submission answered with 500 has ended the run
C18_Witness ==
    /\ cpc = "ended"
    /\ posts = 1
    /\ response_code = 500
    /\ client_end = "http_error"
    /\ gets = 0

\* C19: the requests of a run are one POST to /run and GETs to /status/<job id> and
\* nothing else, and a run that ended on its local timeout wrote no output file.
C19_NoCancelOnTimeout ==
    /\ sent \subseteq
          { Request("POST", BaseUrl(driver, env) \o "/run"),
            Request("GET", BaseUrl(driver, env) \o "/status/" \o IdStr(job_id)) }
    /\ Cardinality(sent) <= 2
    /\ client_end = "timeout" =>
          /\ cpc = "ended"
          /\ writes = 0
          /\ local_file = None

\* a run has ended on its local timeout after a POST and several GETs
C19_Witness ==
    /\ client_end = "timeout"
    /\ gets > 2
    /\ Cardinality(sent) = 2
    /\ Request("GET", BaseUrl(driver, env) \o "/status/job-1") \in sent
    /\ local_file = None

(* ------------------------------------------------- claims C21 to C30 *)

\* C21: the flag list render_blender builds is parsed by parse_args back into the same
\* output path, width, height, samples and fps, with duration the configured duration
\* when one is set (the flag is passed) and None when none is set (no flag).
C21_CliRoundTrip ==
    (spawns = 1 /\ pc \in {"running", "done"}) =>
        /\ args.output = PyList(PathChars(output_path))
        /\ args.width = PyInt(config["resolution"].v[1])
        /\ args.height = PyInt(config["resolution"].v[2])
        /\ args.samples = config["samples"]
        /\ args.fps = config["fps"]
        /\ args.duration = (IF Truthy(config["duration"]) THEN config["duration"] ELSE None)

\* a renderer was spawned for 1280x720, 64 samples, 24 fps and a duration of 4 seconds
C21_Witness ==
    /\ pc = "running"
    /\ spawns = 1
    /\ config["duration"] = PyInt(4)
    /\ args = [output |-> PyList(PathChars(output_path)), duration |-> PyInt(4),
               width |-> PyInt(1280), height |-> PyInt(720),
               samples |-> PyInt(64), fps |-> PyInt(24)]

\* C22: the GPU probe never ends an invocation: has_gpu is a boolean after every probe
\* outcome, the invocation goes on to the output file and the render whatever it is,
\* every payload returned after a probe comes from a render_blender call, and a
\* success payload's gpu_used is the probe's result.
C22_ProbeNonFatal ==
    /\ has_gpu \in BOOLEAN
    /\ probes \in {0, 1}
    /\ pc \in {"probed", "created", "running"} => (probes = 1 /\ result = NoResult)
    /\ (pc = "done" /\ probes = 1 /\ output_path = None) => result = Raised("OSError")
    /\ (pc = "done" /\ probes = 1 /\ IsPayload) => RenderCalled
    /\ IsSuccess => (probes = 1 /\ result.payload.gpu_used = has_gpu)

\* a render has succeeded after a probe that found no GPU
C22_Witness ==
    /\ pc = "done"
    /\ probes = 1
    /\ ~has_gpu
    /\ spawns = 1
    /\ IsSuccess
    /\ result.payload.gpu_used = FALSE

\* C23 (as claimed): the job input either client driver submits carries resolution,
\* samples and fps, and passes the worker's required-parameter checks.
C23_ClientPayloadsComplete ==
    Submitted =>
        /\ Has(payload, "resolution") /\ Has(payload, "samples") /\ Has(payload, "fps")
        /\ MissingField(ParseConfig(payload)) = ""

\* C24: for every CONFIG the submitted job input carries exactly one of template and
\* template_url, the URL when CONFIG sets one and the name otherwise, and carries the
\* duration exactly when CONFIG sets one.
C24_ExactlyOneTemplateKey ==
    Submitted =>
        /\ Has(payload, "template") # Has(payload, "template_url")
        /\ driver = "render" =>
              /\ Has(payload, "template_url") = Truthy(client_config.template_url)
              /\ Truthy(client_config.template_url) =>
                    payload["template_url"] = client_config.template_url
              /\ ~Truthy(client_config.template_url) =>
                    payload["template"] = client_config.template
        /\ Has(payload, "duration") = Truthy(client_config.duration)
        /\ Has(payload, "duration") => payload["duration"] = client_config.duration

\* render.py has submitted a job for a CONFIG with a name, a URL and a duration of 0
C24_Witness ==
    /\ Submitted
    /\ driver = "render"
    /\ client_config.template = PyStr("ai_cpu_activation")
    /\ client_config.template_url = PyStr(TemplateUrl)
    /\ client_config.duration = PyInt(0)
    /\ payload["template"] = Missing
    /\ payload["template_url"] = PyStr(TemplateUrl)
    /\ payload["duration"] = Missing

\* C25: a poll that observes FAILED is the last one; the run writes no output file and
\* prints the error and every field of the output other than video_base64.
C25_FailedPrintsDiagnostics ==
    status = PyStr("FAILED") =>
        /\ cpc = "ended"
        /\ client_end = "failed"
        /\ writes = 0
        /\ local_file = None
        /\ "Error" \in printed
        /\ "video_base64" \notin printed
        /\ \A k \in OutputKeys \ {"video_base64"} :
              (srv.output[k] # Missing) <=> (k \in printed)

\* a FAILED status whose output holds a video and a diagnostic field has been printed
C25_Witness ==
    /\ cpc = "ended"
    /\ status = PyStr("FAILED")
    /\ srv.output["video_base64"] # Missing
    /\ printed = {"Error", "file_size_bytes"}
    /\ writes = 0

\* C26: when the child has exited and the run is classified as a failure (non-zero
\* exit status, or no file at the output path), the render result is a failure whose
\* error is the captured stderr, or the 'no output file' message when stderr is empty,
\* and which carries the last StdoutKeep characters of stdout (None for an empty
\* stdout) and the elapsed render time.
C26_FailureResultDiagnostics ==
    (pc = "done" /\ proc = "exited" /\ child.commOk
        /\ (child.rc # 0 \/ child.op = "delete")) =>
        /\ render_result.success = FALSE
        /\ render_result.error =
             (IF child.stderr = "" THEN "Render failed - no output file" ELSE child.stderr)
        /\ result = ErrorPayload(render_result.error)
        /\ render_result.render_time_seconds = elapsed
        /\ IF child.stdout.last = 0 THEN render_result.stdout = None
           ELSE /\ render_result.stdout.last = child.stdout.last
                /\ render_result.stdout.first >= child.stdout.first
                /\ render_result.stdout.last - render_result.stdout.first + 1 =
                      (IF child.stdout.last < StdoutKeep THEN child.stdout.last
                       ELSE StdoutKeep)

\* a child that wrote 5000 characters of stdout and nothing on stderr has exited with
\* status 1 after the first clock step
C26_Witness ==
    /\ pc = "done"
    /\ proc = "exited"
    /\ child.rc = 1
    /\ child.stderr = ""
    /\ child.stdout = Stdout(5000)
    /\ elapsed = TickSeconds
    /\ render_result.error = NoOutputMsg
    /\ render_result.stdout = [first |-> 3001, last |-> 5000]

\* C27 (as claimed): the config handed to render_blender holds, for each of the four
\* fields, the top-level value of the job input, or None when the job input has none,
\* whatever the nested config holds.
C27_TopLevelValuesHanded ==
    (RenderCalled /\ WellFormed) =>
        \A k \in ConfigKeys :
            config[k] = (IF Has(JobInput, k) THEN JobInput[k] ELSE None)

\* C27 (amended): for each of the four fields the config handed to render_blender
\* holds the value of the nested config when the nested config has the field, else
\* the top-level value of the job input, else None.
C27_NestedThenTopLevelHanded ==
    (RenderCalled /\ WellFormed) =>
        \A k \in ConfigKeys :
            config[k] = (IF NestedValue(k) # Missing THEN NestedValue(k)
                         ELSE IF Has(JobInput, k) THEN JobInput[k]
                         ELSE None)

\* render_blender has been called for a job whose nested config overrides a top-level
\* field and which omits another field altogether
C27_Witness ==
    /\ RenderCalled
    /\ WellFormed
    /\ \E k \in ConfigKeys :
          /\ Has(JobInput, k) /\ NestedValue(k) # Missing /\ NestedValue(k) # JobInput[k]
          /\ config[k] = NestedValue(k)
    /\ \E k \in ConfigKeys :
          ~Has(JobInput, k) /\ NestedValue(k) = Missing /\ config[k] = None

\* C28: an invocation attempts at most one download; when the download fails the
\* invocation is over with an error payload, and no GPU probe was made, no output
\* file was created and no renderer was spawned.
C28_DownloadOnceFailureEnds ==
    /\ downloads <= 1
    /\ DownloadFailed =>
          /\ pc = "done"
          /\ IsError
          /\ probes = 0
          /\ output_path = None
          /\ Mp4File(Len(history)) \notin files
          /\ spawns = 0
          /\ proc = "none"

\* the download from the URL of the job timed out and the invocation is over
C28_Witness ==
    /\ pc = "done"
    /\ Truthy(ReqUrl)
    /\ download_outcome = "io_error"
    /\ downloads = 1
    /\ result = ErrorPayload("Failed to download template: Failed to download template: timed out")

\* C29: a payload returned by handler has exactly one of the keys error and
\* video_base64, and it has video_base64 only when render_blender reported success.
C29_PayloadShapes ==
    IsPayload =>
        /\ ("error" \in DOMAIN result.payload) # ("video_base64" \in DOMAIN result.payload)
        /\ IsSuccess => (render_result # None /\ render_result.success)
        /\ (render_result # None /\ ~render_result.success) => IsError

\* the second invocation returned a success payload after the first returned an error
C29_Witness ==
    /\ pc = "done"
    /\ Len(history) = 2
    /\ history[1] = "payload"
    /\ IsSuccess
    /\ render_result.success
    /\ "error" \notin DOMAIN result.payload

\* C30 (as claimed): a run that was accepted makes at least one status poll, and a
\* COMPLETED or FAILED status seen at a poll whose elapsed time is already above the
\* ceiling is honoured: the video is written, or the error is printed.
C30_TerminalHonouredPastCeiling ==
    /\ (cpc = "ended" /\ Submitted /\ response_code = 200) => gets >= 1
    /\ (cpc = "ended" /\ poll_elapsed > Ceiling(driver) /\ CompletedWithVideo) =>
          (writes = 1 /\ local_file = PyList(VideoBytes))
    /\ (cpc = "ended" /\ poll_elapsed > Ceiling(driver) /\ status = PyStr("FAILED")) =>
          (client_end = "failed" /\ "Error" \in printed)

====
